---- MODULE Spec2Model ----
(***************************************************************************)
(* A model of dsf.py: a per-group ledger bot.  Every Telegram group has    *)
(* its own SQLite file (cycles, bills, users, operators,                   *)
(* previous_balances); handle_command and button_callback are coroutines   *)
(* that suspend at every awaited storage or delivery call.                 *)
(*                                                                         *)
(* Storage follows sqlite3 as aiosqlite drives it: every connection reads  *)
(* the committed file, the first INSERT/UPDATE/DELETE of a connection      *)
(* opens a write transaction that holds the file's write lock until        *)
(* commit, and the writer alone sees its uncommitted rows.                 *)
(*                                                                         *)
(* Text is modelled as a sequence of characters (one string per            *)
(* character); the commands are named in English:                          *)
(*   "open" = shangke, "close" = xiake, "add" = +n / -n,                   *)
(*   "carry" = jieyu, "undo" = chexiao, "import" = importbalance callback. *)
(***************************************************************************)
EXTENDS Integers, Sequences, FiniteSets, TLC

VARIABLES
    db,      \* group -> the committed content of data/group_<id>.db
    wtx,     \* group -> the open write transaction on that file (owner 0: none)
    lock,    \* group -> the handler holding bot_data['group_locks'][group] (0: free)
    cache,   \* group -> bot_data['active_cycle_<group>'] (0: key absent)
    offers,  \* group -> callback data of the import buttons delivered so far
    h,       \* handler slot -> the coroutine's position and locals
    ghost    \* group -> history kept for the properties only

vars == <<db, wtx, lock, cache, offers, h, ghost>>

----------------------------------------------------------------------------
(* Bounds of the model *)

\* Bills a group's file may ever receive under Spec (interleaved handlers).
MaxBills == 2
\* Cycles a group's file may ever receive under Spec.
MaxCycles == 2
\* Bills a group's file may ever receive under SpecSeq (one handler at a time).
MaxBillsSeq == 3
\* Cycles a group's file may ever receive under SpecSeq.
MaxCyclesSeq == 2

\* Bills and cycles a group's file may ever receive under SpecSum.
MaxBillsSum == 3
MaxCyclesSum == 2
\* Bills and cycles a group's file may ever receive under SpecGate.
MaxBillsGate == 1
MaxCyclesGate == 2

\* Bills and cycles a group's file may ever receive under SpecLock.
MaxBillsLock == 1
MaxCyclesLock == 2

\* Bills and cycles a group's file may ever receive under SpecTwo.
MaxBillsTwo == 1
MaxCyclesTwo == 1

\* Bills and cycles a group's file may ever receive under SpecOps.
MaxBillsOps == 1
MaxCyclesOps == 1

\* Bills a group's file may ever receive under SpecNote.
MaxBillsNote == 3

\* Bills a cycle may receive under SpecPage, and the pages a details button
\* may ask for.
MaxBillsPage == 25
MaxPage == 4

\* Bills a group's file may ever receive under SpecLong.
MaxBillsLong == 6
\* Add commands under SpecAdd.
MaxAdds == 4

Groups == {1, 2}
\* Handler slots; Spec and SpecGate run two of them, SpecAdd three, the others one.
Procs == {1, 2, 3}

Min(a, b) == IF a < b THEN a ELSE b
Abs(n) == IF n < 0 THEN -n ELSE n

----------------------------------------------------------------------------
(* Text *)

\* The reserved note prefix of a carry-over bill, '[jieyu]' in the source.
CARRY_PREFIX == <<"[", "jie", "yu", "]">>

\* description LIKE '[jieyu]%'
IsCarry(description) ==
    /\ Len(description) >= Len(CARRY_PREFIX)
    /\ SubSeq(description, 1, Len(CARRY_PREFIX)) = CARRY_PREFIX

\* " ".join(args)[:255] or " "
NOTE_LIMIT == 255
AddDescription(note) ==
    LET cut == SubSeq(note, 1, Min(Len(note), NOTE_LIMIT))
    IN  IF cut = <<>> THEN <<" ">> ELSE cut

\* Mutant of CarryDescription: the prefix is written without its brackets.
BareDescription(note) ==
    <<"jie", "yu", " ">> \o (IF note = <<>> THEN <<"shangqi", "jie", "yu">> ELSE note)

\* f"[jieyu] {' '.join(args[1:]) or 'shangqi jieyu'}"
CarryDescription(note) ==
    CARRY_PREFIX \o <<" ">> \o (IF note = <<>> THEN <<"shangqi", "jie", "yu">> ELSE note)

\* "[jieyu] zidong daoru"
IMPORT_DESCRIPTION == CARRY_PREFIX \o <<" ">> \o <<"zidong", "daoru">>

\* An integer as text: a sign character and the digits' value.
NoToken == [kind |-> "none", sign |-> "", mag |-> 0]
BadToken == [kind |-> "bad", sign |-> "", mag |-> 0]
Tok(sign, mag) == [kind |-> "int", sign |-> sign, mag |-> mag]

\* int(text), for a token int() accepts
ParseInt(tok) == IF tok.sign = "-" THEN 0 - tok.mag ELSE tok.mag

\* str(n) inside the callback data f"importbalance_{group_id}_{previous_balance}"
FormatInt(n) == Tok(IF n < 0 THEN "-" ELSE "", Abs(n))

----------------------------------------------------------------------------
(* Rows and tables *)

EmptyDB ==
    [ cycles |-> <<>>,             \* row i is cycle_id i (AUTOINCREMENT, never deleted)
      bills |-> <<>>,              \* in bill_id order
      seq_bills |-> 0,             \* sqlite_sequence of bills: the last bill_id given
      users |-> {},                \* rows <<user_id, username>>
      operators |-> {},            \* user_ids holding a grant for this group
      previous_balances |-> <<>> ] \* amounts, in id order

NoTx == [owner |-> 0, work |-> EmptyDB]

\* What connection p reads: its own uncommitted work, else the committed file.
View(p, g) == IF wtx[g].owner = p THEN wtx[g].work ELSE db[g]

\* The file's write lock is free for p's next INSERT/UPDATE/DELETE.
CanWrite(p, g) == wtx[g].owner \in {0, p}

RECURSIVE SumAmounts(_)
SumAmounts(rows) ==
    IF rows = <<>> THEN 0 ELSE rows[1].amount + SumAmounts(Tail(rows))

BillsOf(d, cycle_id) == SelectSeq(d.bills, LAMBDA b : b.cycle_id = cycle_id)

Reverse(s) == [i \in 1..Len(s) |-> s[Len(s) + 1 - i]]

\* ORDER BY bill_id DESC LIMIT 5, the amounts
LAST_LIMIT == 5
Last5(rows) ==
    LET r == Reverse(rows)
    IN  [i \in 1..Min(Len(r), LAST_LIMIT) |-> r[i].amount]

NoSummary ==
    [ total_deposits |-> 0, deposit_count |-> 0, total_withdrawals |-> 0,
      withdrawal_count |-> 0, previous_balance |-> 0, net_balance |-> 0,
      deposits |-> <<>>, withdrawals |-> <<>> ]

\* Mutant of AbsWithdrawals: the abs() is left out.
SignedWithdrawals(n) == n

\* abs(res[2]) in get_cycle_summary
AbsWithdrawals(n) == Abs(n)

get_cycle_summary(d, cycle_id) ==
    LET rows == BillsOf(d, cycle_id)
        dep == SelectSeq(rows, LAMBDA b : b.amount > 0 /\ ~IsCarry(b.description))
        wdr == SelectSeq(rows, LAMBDA b : b.amount < 0 /\ ~IsCarry(b.description))
        car == SelectSeq(rows, LAMBDA b : IsCarry(b.description))
        td == SumAmounts(dep)
        tw == AbsWithdrawals(SumAmounts(wdr))
        pb == SumAmounts(car)
    IN  [ total_deposits |-> td, deposit_count |-> Len(dep),
          total_withdrawals |-> tw, withdrawal_count |-> Len(wdr),
          previous_balance |-> pb, net_balance |-> td - tw + pb,
          deposits |-> Last5(dep), withdrawals |-> Last5(wdr) ]

\* SELECT cycle_id FROM cycles WHERE is_active = TRUE, first row (0: no row)
ActiveCycleId(d) ==
    LET act == {i \in 1..Len(d.cycles) : d.cycles[i].is_active}
    IN  IF act = {} THEN 0 ELSE CHOOSE i \in act : \A j \in act : i <= j

\* SELECT amount FROM previous_balances ORDER BY id DESC LIMIT 1
get_previous_balance(d) ==
    IF d.previous_balances = <<>> THEN 0
    ELSE d.previous_balances[Len(d.previous_balances)]

\* Mutant of HasCarry: the guard finds nothing.
NeverHasCarry(d, cycle_id) == FALSE

\* SELECT 1 FROM bills WHERE cycle_id = ? AND description LIKE '[jieyu]%'
HasCarry(d, cycle_id) ==
    \E i \in 1..Len(d.bills) :
        d.bills[i].cycle_id = cycle_id /\ IsCarry(d.bills[i].description)

\* INSERT INTO bills (...): AUTOINCREMENT gives the next bill_id
InsertBill(d, cycle_id, user_id, amount, description) ==
    [d EXCEPT !.seq_bills = d.seq_bills + 1,
              !.bills = Append(d.bills,
                  [ bill_id |-> d.seq_bills + 1, cycle_id |-> cycle_id,
                    user_id |-> user_id, amount |-> amount,
                    description |-> description ])]

\* Mutant of DeleteBill: every bill of that cycle goes with it.
DeleteCycleOf(d, bill_id) ==
    LET cids == {b.cycle_id : b \in {d.bills[i] : i \in {j \in 1..Len(d.bills) :
                                                        d.bills[j].bill_id = bill_id}}}
    IN  [d EXCEPT !.bills = SelectSeq(d.bills, LAMBDA b : b.cycle_id \notin cids)]

\* DELETE FROM bills WHERE bill_id = ?
DeleteBill(d, bill_id) ==
    [d EXCEPT !.bills = SelectSeq(d.bills, LAMBDA b : b.bill_id # bill_id)]

\* Mutant of LastBillId: ORDER BY bill_id ASC.
FirstBillId(d, cycle_id) ==
    LET rows == BillsOf(d, cycle_id)
    IN  IF rows = <<>> THEN 0 ELSE rows[1].bill_id

\* SELECT ... FROM bills WHERE cycle_id = ? ORDER BY bill_id DESC LIMIT 1 (0: no row)
LastBillId(d, cycle_id) ==
    LET rows == BillsOf(d, cycle_id)
    IN  IF rows = <<>> THEN 0 ELSE rows[Len(rows)].bill_id

\* Mutant of DeactivateAll: the UPDATE writes TRUE.
ActivateAll(d) ==
    [d EXCEPT !.cycles = [i \in 1..Len(d.cycles) |->
                              [d.cycles[i] EXCEPT !.is_active = TRUE]]]

\* UPDATE cycles SET is_active = FALSE WHERE group_id = ?
DeactivateAll(d) ==
    [d EXCEPT !.cycles = [i \in 1..Len(d.cycles) |->
                              [d.cycles[i] EXCEPT !.is_active = FALSE]]]

\* INSERT INTO cycles (group_id, start_time, is_active) VALUES (?, ?, TRUE)
InsertCycle(d) ==
    [d EXCEPT !.cycles = Append(d.cycles, [is_active |-> TRUE, ended |-> FALSE])]

\* UPDATE cycles SET is_active = FALSE, end_time = ? WHERE cycle_id = ?
EndCycle(d, cycle_id) ==
    [d EXCEPT !.cycles = [i \in 1..Len(d.cycles) |->
          IF i = cycle_id THEN [is_active |-> FALSE, ended |-> TRUE]
          ELSE d.cycles[i]]]

\* Mutant of DeleteBalances: the DELETE is left out.
KeepBalances(d) == d

\* DELETE FROM previous_balances WHERE group_id = ?
DeleteBalances(d) == [d EXCEPT !.previous_balances = <<>>]

\* INSERT INTO previous_balances (group_id, amount, created_at) VALUES (?, ?, ?)
InsertBalance(d, amount) ==
    [d EXCEPT !.previous_balances = Append(d.previous_balances, amount)]

----------------------------------------------------------------------------
(* Actors and commands *)

\* Telegram users: alice and bob are chat administrators with a username,
\* carol is an ordinary member with a username, guest is one without.
Actors == {"alice", "bob", "carol", "guest"}

\* is_admin: the actor is in the chat's administrator list
is_admin(actor) == actor \in {"alice", "bob"}

\* user.username (<<>>: the account has none)
Username(actor) == IF actor = "guest" THEN <<>> ELSE <<actor>>

\* is_operator: SELECT 1 FROM operators WHERE group_id = ? AND user_id = ?
is_operator(d, actor) == actor \in d.operators

\* Mutant of is_authorized_user: every sender passes.
AnyoneAuthorized(d, actor) == TRUE

is_authorized_user(d, actor) == is_admin(actor) \/ is_operator(d, actor)

\* record_user: INSERT INTO users ... ON CONFLICT(user_id) DO UPDATE SET username
record_user(d, actor) ==
    IF Username(actor) = <<>> THEN d
    ELSE [d EXCEPT !.users =
              {u \in d.users : u[1] # actor} \cup {<<actor, <<"@">> \o Username(actor)>>}]

\* reply_to: the sender of the message the command replies to ("": none).
NoCmd ==
    [cmd |-> "", group |-> 0, actor |-> "", tok |-> NoToken, note |-> <<>>,
     reply_to |-> ""]
Cmd(cmd, g, actor, tok, note) ==
    [cmd |-> cmd, group |-> g, actor |-> actor, tok |-> tok, note |-> note,
     reply_to |-> ""]

\* An operator command: its arguments, and the message it replies to.
OpCmd(cmd, g, actor, reply_to, args) ==
    [Cmd(cmd, g, actor, NoToken, args) EXCEPT !.reply_to = reply_to]

Idle ==
    [ pc |-> "idle", c |-> NoCmd, cycle_id |-> 0, summary |-> NoSummary,
      last_bill |-> 0, prev |-> 0, msg |-> "",
      attempt |-> 0,      \* the loop variable of _robust_telegram_call
      outcome |-> "",     \* how the attempt before the running one ended
      total_items |-> 0, total_pages |-> 0, listing |-> <<>>,
      held_grant |-> FALSE,   \* the actor had an operators row when authorization was checked
      target |-> "", target_name |-> <<>>,   \* target_user.id and .username
      shown |-> {} ]          \* the usernames the operator listing shows

Grp(p) == h[p].c.group

\* The handler holds the group lock from "async with group_lock" to its exit.
Locked(cmd) == cmd \in {"open", "close"}

\* Mutant of LockOf: one lock for every group.
OneLock(g) == 1

\* get_group_lock: bot_data['group_locks'] holds one asyncio.Lock per group id.
LockOf(g) == g

\* Mutant of Release: the lock stays with the handler that took it.
NoRelease(p) == lock' = lock

\* Leaving the handler: the "async with group_lock" block releases on every exit.
Release(p) ==
    lock' = [g \in Groups |-> IF lock[g] = p THEN 0 ELSE lock[g]]

\* The handler ends by sending msg (the reply is an awaited delivery call).
ToReply(p, msg) == [h[p] EXCEPT !.pc = "reply", !.msg = msg]

\* Mutant of AfterCycle: '+N' goes on without an active cycle.
AfterCycleNoGuard(p, cycle_id) ==
    LET c == h[p].c
        at(pc) == [h[p] EXCEPT !.pc = pc, !.cycle_id = cycle_id]
        say(msg) == [h[p] EXCEPT !.pc = "reply", !.cycle_id = cycle_id, !.msg = msg]
    IN  CASE c.cmd = "open" ->
                 IF cycle_id # 0 THEN say("already_active") ELSE at("o_update")
          [] c.cmd = "close" ->
                 IF cycle_id = 0 THEN say("no_active_cycle") ELSE at("c_summary")
          [] c.cmd = "add" -> at("a_insert")
          [] c.cmd = "carry" ->
                 IF cycle_id = 0 THEN say("no_active_cycle")
                 ELSE IF c.tok.kind # "int" THEN say("bad_format")
                 ELSE at("k_check")
          [] c.cmd = "undo" ->
                 IF cycle_id = 0 THEN say("no_active_cycle") ELSE at("u_select")
          [] c.cmd = "import" ->
                 IF cycle_id = 0 THEN say("no_active_cycle") ELSE at("i_check")

\* Where the handler goes once get_active_cycle has returned cycle_id.
AfterCycle(p, cycle_id) ==
    LET c == h[p].c
        at(pc) == [h[p] EXCEPT !.pc = pc, !.cycle_id = cycle_id]
        say(msg) == [h[p] EXCEPT !.pc = "reply", !.cycle_id = cycle_id, !.msg = msg]
    IN  CASE c.cmd = "open" ->
                 IF cycle_id # 0 THEN say("already_active") ELSE at("o_update")
          [] c.cmd = "close" ->
                 IF cycle_id = 0 THEN say("no_active_cycle") ELSE at("c_summary")
          [] c.cmd = "add" ->
                 IF cycle_id = 0 THEN say("no_active_cycle") ELSE at("a_insert")
          [] c.cmd = "carry" ->
                 IF cycle_id = 0 THEN say("no_active_cycle")
                 ELSE IF c.tok.kind # "int" THEN say("bad_format")
                 ELSE at("k_check")
          [] c.cmd = "undo" ->
                 IF cycle_id = 0 THEN say("no_active_cycle") ELSE at("u_select")
          [] c.cmd = "import" ->
                 IF cycle_id = 0 THEN say("no_active_cycle") ELSE at("i_check")

----------------------------------------------------------------------------
(* handle_command and button_callback, one action per suspension point *)

\* A message arrives: init_group_db (the schema exists), then record_user.
StartCmd(p, c) ==
    /\ h[p].pc = "idle"
    /\ c.cmd # "import"
    /\ CanWrite(p, c.group)
    /\ db' = [db EXCEPT ![c.group] = record_user(db[c.group], c.actor)]
    /\ h' = [h EXCEPT ![p] = [Idle EXCEPT !.pc = "auth", !.c = c]]
    /\ UNCHANGED <<wtx, lock, cache, offers, ghost>>

\* An import button is pressed: button_callback answers the query first.
StartImport(p, c) ==
    /\ h[p].pc = "idle"
    /\ c.cmd = "import"
    /\ c.tok \in offers[c.group]
    /\ h' = [h EXCEPT ![p] = [Idle EXCEPT !.pc = "auth", !.c = c]]
    /\ UNCHANGED <<db, wtx, lock, cache, offers, ghost>>

\* "async with group_lock" (open and close only), is_authorized_user, and the
\* cache lookup that opens get_active_cycle.
Auth(p) ==
    LET c == h[p].c
        g == c.group
    IN  /\ h[p].pc = "auth"
        /\ IF Locked(c.cmd)
             THEN lock[LockOf(g)] = 0 /\ lock' = [lock EXCEPT ![LockOf(g)] = p]
             ELSE UNCHANGED lock
        /\ h' = [h EXCEPT ![p] =
               IF ~is_authorized_user(db[g], c.actor)
                 THEN IF Locked(c.cmd) THEN ToReply(p, "unauthorized") ELSE Idle
               ELSE [ (IF cache[g] # 0 THEN AfterCycle(p, cache[g])
                       ELSE [h[p] EXCEPT !.pc = "gac_read"])
                      EXCEPT !.held_grant = c.actor \in db[g].operators ]]
        /\ UNCHANGED <<db, wtx, cache, offers, ghost>>

\* get_active_cycle on a cache miss: the SELECT on the committed file.
GacRead(p) ==
    LET cid == ActiveCycleId(db[Grp(p)])
    IN  /\ h[p].pc = "gac_read"
        /\ h' = [h EXCEPT ![p] =
               IF cid = 0 THEN AfterCycle(p, 0)
               ELSE [h[p] EXCEPT !.pc = "gac_set", !.cycle_id = cid]]
        /\ UNCHANGED <<db, wtx, lock, cache, offers, ghost>>

\* get_active_cycle: after fetchone returns, the id found is cached.
GacSet(p) ==
    /\ h[p].pc = "gac_set"
    /\ cache' = [cache EXCEPT ![Grp(p)] = h[p].cycle_id]
    /\ h' = [h EXCEPT ![p] = AfterCycle(p, h[p].cycle_id)]
    /\ UNCHANGED <<db, wtx, lock, offers, ghost>>

\* The history of group g becomes rec, in the specifications that keep one.
Record(g, rec) ==
    ghost' = IF ghost[g].on THEN [ghost EXCEPT ![g] = rec] ELSE ghost

\* A statement of p's write transaction: the first one takes the write lock.
Write(p, work, pc) ==
    /\ CanWrite(p, Grp(p))
    /\ wtx' = [wtx EXCEPT ![Grp(p)] = [owner |-> p, work |-> work]]
    /\ h' = [h EXCEPT ![p].pc = pc]

\* conn.commit(): the transaction's work becomes the committed file.
Publish(p) ==
    /\ wtx[Grp(p)].owner = p
    /\ db' = [db EXCEPT ![Grp(p)] = wtx[Grp(p)].work]
    /\ wtx' = [wtx EXCEPT ![Grp(p)] = NoTx]

\* open: UPDATE cycles SET is_active = FALSE WHERE group_id = ?
OpenUpdate(p) ==
    /\ h[p].pc = "o_update"
    /\ Write(p, DeactivateAll(View(p, Grp(p))), "o_insert")
    /\ UNCHANGED <<db, lock, cache, offers, ghost>>

\* open: INSERT INTO cycles
OpenInsert(p) ==
    /\ h[p].pc = "o_insert"
    /\ Write(p, InsertCycle(View(p, Grp(p))), "o_commit")
    /\ UNCHANGED <<db, lock, cache, offers, ghost>>

\* open: commit, then bot_data.pop('active_cycle_<group>')
OpenCommit(p) ==
    /\ h[p].pc = "o_commit"
    /\ Publish(p)
    /\ cache' = [cache EXCEPT ![Grp(p)] = 0]
    /\ h' = [h EXCEPT ![p].pc = "o_prev"]
    /\ UNCHANGED <<lock, offers, ghost>>

\* open: get_previous_balance, and the reply that offers the import
OpenPrev(p) ==
    /\ h[p].pc = "o_prev"
    /\ h' = [h EXCEPT ![p] = [h[p] EXCEPT !.pc = "reply", !.msg = "opened",
                                          !.prev = get_previous_balance(db[Grp(p)])]]
    /\ UNCHANGED <<db, wtx, lock, cache, offers, ghost>>

\* How an awaited delivery call (reply_text, edit_message_text) can end.
Outcomes == {"ok", "timed_out", "error"}

\* _robust_telegram_call(api_call, max_retries=3, ...)
MAX_RETRIES == 3

\* Mutant of AfterAttempt: every failure is retried, not only TimedOut.
RetryEveryFailure(attempt, max_retries, outcome) ==
    IF outcome = "ok" THEN "return"
    ELSE IF attempt + 1 = max_retries THEN "raise" ELSE "retry"

\* One pass of the loop "for attempt in range(max_retries)" of
\* _robust_telegram_call: return on success, sleep and go round again on
\* TimedOut unless this was the last pass, raise on everything else.
AfterAttempt(attempt, max_retries, outcome) ==
    CASE outcome = "ok" -> "return"
      [] outcome = "timed_out" ->
             IF attempt + 1 = max_retries THEN "raise" ELSE "retry"
      [] OTHER -> "raise"

\* The replies sent through send_robust_reply or robust_edit_message_text:
\* the summaries after a committed add, carry or undo, and every answer of the
\* importbalance and details callbacks.  All others are plain update.message.reply_text.
Robust(c, msg) ==
    c.cmd \in {"import", "details"} \/ msg \in {"added", "carried", "undone"}

\* The inline keyboard under the open's message, once the reply of handler p
\* is delivered: an open whose previous balance is not 0 puts an import button
\* there, and the callback's edit of that message (sent without reply_markup)
\* takes the button away.
Buttons(p) ==
    LET g == Grp(p)
    IN  IF h[p].msg = "opened" /\ h[p].prev # 0
          THEN [offers EXCEPT ![g] = @ \cup {FormatInt(h[p].prev)}]
        ELSE IF h[p].c.cmd = "import"
                  /\ h[p].msg \in {"imported", "already_imported", "no_active_cycle"}
          THEN [offers EXCEPT ![g] = @ \ {h[p].c.tok}]
        ELSE offers

\* The delivery call returns: the handler runs to its end.
ReplyDelivered(p) ==
    /\ h[p].pc = "reply"
    /\ Robust(h[p].c, h[p].msg) => AfterAttempt(h[p].attempt, MAX_RETRIES, "ok") = "return"
    /\ offers' = Buttons(p)
    /\ Release(p)
    /\ h' = [h EXCEPT ![p] = Idle]
    /\ UNCHANGED <<db, wtx, cache, ghost>>

\* _robust_telegram_call: the attempt failed, asyncio.sleep(delay), next pass.
ReplyRetry(p) ==
    /\ h[p].pc = "reply"
    /\ Robust(h[p].c, h[p].msg)
    /\ \E o \in Outcomes :
          /\ AfterAttempt(h[p].attempt, MAX_RETRIES, o) = "retry"
          /\ h' = [h EXCEPT ![p].attempt = @ + 1, ![p].outcome = o]
    /\ UNCHANGED <<db, wtx, lock, cache, offers, ghost>>

\* The delivery call raises for good.  send_robust_reply and
\* robust_edit_message_text log and swallow what _robust_telegram_call raises;
\* a plain reply_text raises out of handle_command (the group lock is released
\* on the way) and the dispatcher runs error_handler.
ReplyLost(p) ==
    /\ h[p].pc = "reply"
    /\ Release(p)
    /\ IF Robust(h[p].c, h[p].msg)
         THEN /\ \E o \in Outcomes :
                    AfterAttempt(h[p].attempt, MAX_RETRIES, o) = "raise"
              /\ h' = [h EXCEPT ![p] = Idle]
         ELSE h' = [h EXCEPT ![p].pc = "error_handler"]
    /\ UNCHANGED <<db, wtx, cache, offers, ghost>>

\* error_handler: logs the exception and tries to tell the chat "unknown
\* internal error"; a failure of that reply is logged and dropped.
ErrorHandler(p) ==
    /\ h[p].pc = "error_handler"
    /\ h' = [h EXCEPT ![p] = Idle]
    /\ UNCHANGED <<db, wtx, lock, cache, offers, ghost>>

\* close: get_cycle_summary on the committed file, then BEGIN TRANSACTION
CloseSummary(p) ==
    /\ h[p].pc = "c_summary"
    /\ h' = [h EXCEPT ![p] = [h[p] EXCEPT !.pc = "c_update",
               !.summary = get_cycle_summary(db[Grp(p)], h[p].cycle_id)]]
    /\ UNCHANGED <<db, wtx, lock, cache, offers, ghost>>

\* close: UPDATE cycles SET is_active = FALSE, end_time = ? WHERE cycle_id = ?
CloseUpdate(p) ==
    /\ h[p].pc = "c_update"
    /\ Write(p, EndCycle(View(p, Grp(p)), h[p].cycle_id), "c_delete")
    /\ UNCHANGED <<db, lock, cache, offers, ghost>>

\* close: DELETE FROM previous_balances; the INSERT follows only "if net_balance != 0"
CloseDelete(p) ==
    /\ h[p].pc = "c_delete"
    /\ Write(p, DeleteBalances(View(p, Grp(p))),
             IF h[p].summary.net_balance # 0 THEN "c_insert" ELSE "c_commit")
    /\ UNCHANGED <<db, lock, cache, offers, ghost>>

\* close: INSERT INTO previous_balances
CloseInsert(p) ==
    /\ h[p].pc = "c_insert"
    /\ Write(p, InsertBalance(View(p, Grp(p)), h[p].summary.net_balance), "c_commit")
    /\ UNCHANGED <<db, lock, cache, offers, ghost>>

\* close: commit, then bot_data.pop('active_cycle_<group>') and the reply
CloseCommit(p) ==
    /\ h[p].pc = "c_commit"
    /\ Publish(p)
    /\ cache' = [cache EXCEPT ![Grp(p)] = 0]
    /\ h' = [h EXCEPT ![p] = ToReply(p, "closed")]
    /\ Record(Grp(p), [ghost[Grp(p)] EXCEPT !.last = "other", !.before = <<>>])
    /\ UNCHANGED <<lock, offers>>

\* The INSERT of an entry command and the get_cycle_summary that follows it
\* on the same connection.
InsertAndSummarize(p, amount, description, pc) ==
    LET work == InsertBill(View(p, Grp(p)), h[p].cycle_id, h[p].c.actor,
                           amount, description)
    IN  /\ CanWrite(p, Grp(p))
        /\ wtx' = [wtx EXCEPT ![Grp(p)] = [owner |-> p, work |-> work]]
        /\ h' = [h EXCEPT ![p] = [h[p] EXCEPT !.pc = pc,
                   !.summary = get_cycle_summary(work, h[p].cycle_id)]]

\* The commit of an add, a carry or an import.
CommitEntry(p, msg) ==
    /\ Publish(p)
    /\ h' = [h EXCEPT ![p] = ToReply(p, msg)]
    /\ Record(Grp(p),
           [ on |-> TRUE, last |-> "add", before |-> db[Grp(p)].bills,
             adds |-> ghost[Grp(p)].adds + (IF h[p].c.cmd = "add" THEN 1 ELSE 0),
             deposits |-> ghost[Grp(p)].deposits +
                 (IF h[p].c.cmd = "add" /\ ParseInt(h[p].c.tok) > 0 THEN 1 ELSE 0),
             consumed |-> ghost[Grp(p)].consumed \cup
                 (IF h[p].c.cmd = "import" THEN {h[p].c.tok} ELSE {}) ])

\* add: amount = int(cmd), the INSERT and the summary
AddInsert(p) ==
    /\ h[p].pc = "a_insert"
    /\ InsertAndSummarize(p, ParseInt(h[p].c.tok), AddDescription(h[p].c.note), "a_commit")
    /\ UNCHANGED <<db, lock, cache, offers, ghost>>

\* Mutant of AddCommit: conn.commit() is left out, and closing the connection
\* rolls the INSERT back.
AddCommitForgotten(p) ==
    /\ h[p].pc = "a_commit"
    /\ wtx[Grp(p)].owner = p
    /\ wtx' = [wtx EXCEPT ![Grp(p)] = NoTx]
    /\ h' = [h EXCEPT ![p] = ToReply(p, "added")]
    /\ Record(Grp(p),
           [ghost[Grp(p)] EXCEPT !.adds = @ + 1,
               !.deposits = @ + (IF ParseInt(h[p].c.tok) > 0 THEN 1 ELSE 0)])
    /\ UNCHANGED <<db, lock, cache, offers>>

\* add: conn.commit()
AddCommit(p) ==
    /\ h[p].pc = "a_commit"
    /\ CommitEntry(p, "added")
    /\ UNCHANGED <<lock, cache, offers>>

\* The SELECT 1 that guards a carry-over entry, on the committed file.
CheckCarry(p, pc) ==
    h' = [h EXCEPT ![p] =
            IF HasCarry(db[Grp(p)], h[p].cycle_id)
              THEN ToReply(p, "already_imported")
              ELSE [h[p] EXCEPT !.pc = pc]]

\* carry: SELECT 1 FROM bills ... LIKE '[jieyu]%'
CarryCheck(p) ==
    /\ h[p].pc = "k_check"
    /\ CheckCarry(p, "k_insert")
    /\ UNCHANGED <<db, wtx, lock, cache, offers, ghost>>

\* carry: the INSERT and the summary
CarryInsert(p) ==
    /\ h[p].pc = "k_insert"
    /\ InsertAndSummarize(p, ParseInt(h[p].c.tok), CarryDescription(h[p].c.note), "k_commit")
    /\ UNCHANGED <<db, lock, cache, offers, ghost>>

CarryCommit(p) ==
    /\ h[p].pc = "k_commit"
    /\ CommitEntry(p, "carried")
    /\ UNCHANGED <<lock, cache, offers>>

\* importbalance: SELECT 1 FROM bills ... LIKE '[jieyu]%'
ImportCheck(p) ==
    /\ h[p].pc = "i_check"
    /\ CheckCarry(p, "i_insert")
    /\ UNCHANGED <<db, wtx, lock, cache, offers, ghost>>

\* importbalance: the INSERT and the summary
ImportInsert(p) ==
    /\ h[p].pc = "i_insert"
    /\ InsertAndSummarize(p, ParseInt(h[p].c.tok), IMPORT_DESCRIPTION, "i_commit")
    /\ UNCHANGED <<db, lock, cache, offers, ghost>>

ImportCommit(p) ==
    /\ h[p].pc = "i_commit"
    /\ CommitEntry(p, "imported")
    /\ UNCHANGED <<lock, cache, offers>>

\* undo: SELECT bill_id ... ORDER BY bill_id DESC LIMIT 1 on the committed file
UndoSelect(p) ==
    LET last == LastBillId(db[Grp(p)], h[p].cycle_id)
    IN  /\ h[p].pc = "u_select"
        /\ h' = [h EXCEPT ![p] =
               IF last = 0 THEN ToReply(p, "empty_ledger")
               ELSE [h[p] EXCEPT !.pc = "u_delete", !.last_bill = last]]
        /\ UNCHANGED <<db, wtx, lock, cache, offers, ghost>>

\* undo: DELETE FROM bills WHERE bill_id = ?, and the summary
UndoDelete(p) ==
    LET work == DeleteBill(View(p, Grp(p)), h[p].last_bill)
    IN  /\ h[p].pc = "u_delete"
        /\ CanWrite(p, Grp(p))
        /\ wtx' = [wtx EXCEPT ![Grp(p)] = [owner |-> p, work |-> work]]
        /\ h' = [h EXCEPT ![p] = [h[p] EXCEPT !.pc = "u_commit",
                   !.summary = get_cycle_summary(work, h[p].cycle_id)]]
        /\ UNCHANGED <<db, lock, cache, offers, ghost>>

UndoCommit(p) ==
    /\ h[p].pc = "u_commit"
    /\ Publish(p)
    /\ h' = [h EXCEPT ![p] = ToReply(p, "undone")]
    /\ Record(Grp(p),
           [ghost[Grp(p)] EXCEPT
               !.last = IF @ = "add" THEN "undo_of_add" ELSE "other",
               !.before = IF ghost[Grp(p)].last = "add" THEN @ ELSE <<>>])
    /\ UNCHANGED <<lock, cache, offers>>

\* An operator command arrives: init_group_db, then record_user of its sender.
StartOp(p, c) ==
    /\ h[p].pc = "idle"
    /\ c.cmd \in {"grant", "revoke", "list"}
    /\ CanWrite(p, c.group)
    /\ db' = [db EXCEPT ![c.group] = record_user(db[c.group], c.actor)]
    /\ h' = [h EXCEPT ![p] = [Idle EXCEPT !.pc = "m_admin", !.c = c]]
    /\ UNCHANGED <<wtx, lock, cache, offers, ghost>>

\* The operator commands: is_admin, then the target of a grant or a revoke is
\* the sender of the replied-to message, else the user an '@name' names.
OpAdmin(p) ==
    LET c == h[p].c
    IN  /\ h[p].pc = "m_admin"
        /\ h' = [h EXCEPT ![p] =
               IF ~is_admin(c.actor) THEN ToReply(p, "admin_only")
               ELSE IF c.cmd = "list" THEN [h[p] EXCEPT !.pc = "m_list"]
               ELSE IF c.reply_to # ""
                 THEN [h[p] EXCEPT !.pc = "m_record", !.target = c.reply_to,
                                   !.target_name = Username(c.reply_to)]
               ELSE IF c.note # <<>> /\ c.note[1] = "@"
                 THEN [h[p] EXCEPT !.pc = "m_lookup"]
               ELSE ToReply(p, "bad_format")]
        /\ UNCHANGED <<db, wtx, lock, cache, offers, ghost>>

\* SELECT user_id FROM users WHERE username = ?; username = args[0].strip('@')
OpLookup(p) ==
    LET rows == {u \in db[Grp(p)].users : u[2] = h[p].c.note}
    IN  /\ h[p].pc = "m_lookup"
        /\ h' = [h EXCEPT ![p] =
               IF rows = {} THEN ToReply(p, "never_spoke")
               ELSE [h[p] EXCEPT !.pc = "m_record",
                                 !.target = (CHOOSE u \in rows : TRUE)[1],
                                 !.target_name = Tail(h[p].c.note)]]
        /\ UNCHANGED <<db, wtx, lock, cache, offers, ghost>>

\* record_user(target_user, group_id): nothing is written for a target
\* without a username.
RecordTarget(d, user_id, username) ==
    IF username = <<>> THEN d
    ELSE [d EXCEPT !.users =
              {u \in d.users : u[1] # user_id} \cup {<<user_id, <<"@">> \o username>>}]

OpRecord(p) ==
    /\ h[p].pc = "m_record"
    /\ CanWrite(p, Grp(p))
    /\ db' = [db EXCEPT ![Grp(p)] = RecordTarget(@, h[p].target, h[p].target_name)]
    /\ h' = [h EXCEPT ![p].pc = "m_write"]
    /\ UNCHANGED <<wtx, lock, cache, offers, ghost>>

\* INSERT OR IGNORE INTO operators (group_id, user_id) VALUES (?, ?); the
\* connection does not turn foreign keys on, so the users row is not required.
GrantRow(d, user_id) == [d EXCEPT !.operators = @ \cup {user_id}]

\* DELETE FROM operators WHERE group_id = ? AND user_id = ?
RevokeRow(d, user_id) == [d EXCEPT !.operators = @ \ {user_id}]

OpWrite(p) ==
    LET d == View(p, Grp(p))
    IN  /\ h[p].pc = "m_write"
        /\ Write(p, IF h[p].c.cmd = "grant" THEN GrantRow(d, h[p].target)
                    ELSE RevokeRow(d, h[p].target), "m_commit")
        /\ UNCHANGED <<db, lock, cache, offers, ghost>>

OpCommit(p) ==
    /\ h[p].pc = "m_commit"
    /\ Publish(p)
    /\ h' = [h EXCEPT ![p] =
           ToReply(p, IF h[p].c.cmd = "grant" THEN "granted" ELSE "revoked")]
    /\ UNCHANGED <<lock, cache, offers, ghost>>

\* SELECT u.username FROM operators o JOIN users u ON o.user_id = u.user_id
OperatorNames(d) == {u[2] : u \in {v \in d.users : v[1] \in d.operators}}

OpList(p) ==
    LET names == OperatorNames(db[Grp(p)])
    IN  /\ h[p].pc = "m_list"
        /\ h' = [h EXCEPT ![p] =
               [ToReply(p, IF names = {} THEN "no_operators" ELSE "operators")
                  EXCEPT !.shown = names]]
        /\ UNCHANGED <<db, wtx, lock, cache, offers, ghost>>

\* items_per_page = 10
ITEMS_PER_PAGE == 10

\* Mutant of TotalPages: the division rounds down.
FloorPages(total_items) ==
    IF total_items > 0 THEN total_items \div ITEMS_PER_PAGE ELSE 1

\* math.ceil(total_items / items_per_page) if total_items > 0 else 1
TotalPages(total_items) ==
    IF total_items > 0
      THEN IF total_items % ITEMS_PER_PAGE = 0
             THEN total_items \div ITEMS_PER_PAGE
             ELSE total_items \div ITEMS_PER_PAGE + 1
      ELSE 1

\* SELECT ... FROM bills WHERE cycle_id = ? ORDER BY bill_id DESC LIMIT ? OFFSET ?
PageRows(d, cycle_id, limit, offset) ==
    LET r == Reverse(BillsOf(d, cycle_id))
    IN  SubSeq(r, offset + 1, Min(offset + limit, Len(r)))

\* A details button is pressed (callback data details_<group>_<cycle>_<page>):
\* button_callback answers the query and parses the three integers.  Any
\* member of the chat may press it.
StartDetails(p, g, cycle_id, page) ==
    /\ h[p].pc = "idle"
    /\ h' = [h EXCEPT ![p] =
           [Idle EXCEPT !.pc = "d_count", !.cycle_id = cycle_id,
                        !.c = Cmd("details", g, "guest", Tok("", page), <<>>)]]
    /\ UNCHANGED <<db, wtx, lock, cache, offers, ghost>>

\* details: get_cycle_summary and SELECT COUNT(*) FROM bills WHERE cycle_id = ?
DetailsCount(p) ==
    /\ h[p].pc = "d_count"
    /\ h' = [h EXCEPT ![p] = [h[p] EXCEPT !.pc = "d_page",
               !.summary = get_cycle_summary(db[Grp(p)], h[p].cycle_id),
               !.total_items = Len(BillsOf(db[Grp(p)], h[p].cycle_id))]]
    /\ UNCHANGED <<db, wtx, lock, cache, offers, ghost>>

\* details: offset = (page - 1) * items_per_page, the page's SELECT, total_pages,
\* and the edit of the message that shows them
DetailsPage(p) ==
    LET page == ParseInt(h[p].c.tok)
        offset == (page - 1) * ITEMS_PER_PAGE
    IN  /\ h[p].pc = "d_page"
        /\ h' = [h EXCEPT ![p] = [h[p] EXCEPT !.pc = "reply", !.msg = "details",
                   !.listing = PageRows(db[Grp(p)], h[p].cycle_id, ITEMS_PER_PAGE, offset),
                   !.total_pages = TotalPages(h[p].total_items)]]
        /\ UNCHANGED <<db, wtx, lock, cache, offers, ghost>>

\* Where an exception raised by a storage call takes the handler: close
\* catches it inside its transaction, rolls back and replies "failed, rolled
\* back" (still under the group lock); the importbalance callback catches it
\* and replies "import failed"; everywhere else it leaves handle_command, the
\* group lock is released on the way and the dispatcher runs error_handler.
Raised(p) ==
    CASE h[p].c.cmd = "close" -> ToReply(p, "close_failed")
      [] h[p].c.cmd = "import" -> ToReply(p, "import_failed")
      [] OTHER -> [h[p] EXCEPT !.pc = "error_handler", !.msg = "raised"]

\* The handler's next statement needs the write lock, another connection holds
\* it, and sqlite3's busy timeout runs out: OperationalError.
WritePcs ==
    {"o_update", "c_update", "a_insert", "k_insert", "i_insert", "u_delete", "m_write"}
BusyFail(p) ==
    /\ h[p].pc \in WritePcs
    /\ ~CanWrite(p, Grp(p))
    /\ IF h[p].c.cmd = "close" THEN UNCHANGED lock ELSE Release(p)
    /\ h' = [h EXCEPT ![p] = Raised(p)]
    /\ UNCHANGED <<db, wtx, cache, offers, ghost>>

\* Mutant of Rollback: the statements executed so far are committed.
CommitPartial(p) ==
    /\ db' = [db EXCEPT ![Grp(p)] = wtx[Grp(p)].work]
    /\ wtx' = [wtx EXCEPT ![Grp(p)] = NoTx]

\* conn.rollback(): the transaction's work is dropped.
Rollback(p) ==
    /\ db' = db
    /\ wtx' = [wtx EXCEPT ![Grp(p)] = NoTx]

\* close: a statement of the transaction (the DELETE, the INSERT or the
\* commit, after the UPDATE took the write lock) raises; the except branch
\* rolls back and returns the failure reply before the cache is touched.
CloseFail(p) ==
    /\ h[p].pc \in {"c_delete", "c_insert", "c_commit"}
    /\ wtx[Grp(p)].owner = p
    /\ Rollback(p)
    /\ h' = [h EXCEPT ![p] = ToReply(p, "close_failed")]
    /\ UNCHANGED <<lock, cache, offers, ghost>>

----------------------------------------------------------------------------
(* Specifications *)

\* The history of a group, for the properties only: whether it is kept (on),
\* what the last committed change was, the bills before the last committed
\* entry, and how many adds (and adds of a positive amount) have committed.
NoGhost(on) ==
    [on |-> on, last |-> "other", before |-> <<>>, adds |-> 0, deposits |-> 0,
     consumed |-> {}]

\* The program as constructed: no file has a row, no handler runs.
Fresh ==
    /\ db = [g \in Groups |-> EmptyDB]
    /\ wtx = [g \in Groups |-> NoTx]
    /\ lock = [g \in Groups |-> 0]
    /\ cache = [g \in Groups |-> 0]
    /\ offers = [g \in Groups |-> {}]
    /\ h = [p \in Procs |-> Idle]

Init == Fresh /\ ghost = [g \in Groups |-> NoGhost(FALSE)]

InitTracked == Fresh /\ ghost = [g \in Groups |-> NoGhost(TRUE)]

\* One step of a handler that has started.
Step(p) ==
    \/ Auth(p) \/ GacRead(p) \/ GacSet(p)
    \/ OpenUpdate(p) \/ OpenInsert(p) \/ OpenCommit(p) \/ OpenPrev(p)
    \/ CloseSummary(p) \/ CloseUpdate(p) \/ CloseDelete(p) \/ CloseInsert(p)
    \/ CloseCommit(p) \/ CloseFail(p)
    \/ AddInsert(p) \/ AddCommit(p)
    \/ CarryCheck(p) \/ CarryInsert(p) \/ CarryCommit(p)
    \/ ImportCheck(p) \/ ImportInsert(p) \/ ImportCommit(p)
    \/ UndoSelect(p) \/ UndoDelete(p) \/ UndoCommit(p)
    \/ ReplyDelivered(p) \/ ReplyRetry(p) \/ ReplyLost(p) \/ ErrorHandler(p)

\* Rows a group's file has been given, and those the running handlers may add.
BillRoom(g, max) ==
    db[g].seq_bills
      + Cardinality({q \in Procs : h[q].c.group = g
                                   /\ h[q].c.cmd \in {"add", "carry", "import"}}) < max
CycleRoom(g, max) ==
    Len(db[g].cycles)
      + Cardinality({q \in Procs : h[q].c.group = g /\ h[q].c.cmd = "open"}) < max

Room(c, maxBills, maxCycles) ==
    /\ c.cmd \in {"add", "carry"} => BillRoom(c.group, maxBills)
    /\ c.cmd = "open" => CycleRoom(c.group, maxCycles)

\* Spec: handlers of one group interleave at every suspension point.
SpecCmds ==
    { Cmd(k, 1, "alice", NoToken, <<>>) : k \in {"open", "close", "undo"} }
      \cup { Cmd("add", 1, "alice", Tok("+", 5), <<>>),
             Cmd("carry", 1, "alice", Tok("+", 2), <<>>),
             Cmd("open", 1, "guest", NoToken, <<>>) }

Start(p) ==
    \E c \in SpecCmds : Room(c, MaxBills, MaxCycles) /\ StartCmd(p, c)

Press(p) ==
    \E tok \in offers[1] :
        /\ BillRoom(1, MaxBills)
        /\ StartImport(p, Cmd("import", 1, "alice", tok, <<>>))

Next == \E p \in {1, 2} : Start(p) \/ Press(p) \/ Step(p) \/ BusyFail(p)

Spec == Init /\ [][Next]_vars

\* SpecGate: the commands and the interleaving of Spec without the import
\* button, in files of few bills and more cycles.
StartGate(p) ==
    \E c \in SpecCmds : Room(c, MaxBillsGate, MaxCyclesGate) /\ StartCmd(p, c)

StepGate(p) ==
    \/ Auth(p) \/ GacRead(p) \/ GacSet(p)
    \/ OpenUpdate(p) \/ OpenInsert(p) \/ OpenCommit(p) \/ OpenPrev(p)
    \/ CloseSummary(p) \/ CloseUpdate(p) \/ CloseDelete(p) \/ CloseInsert(p)
    \/ CloseCommit(p) \/ CloseFail(p)
    \/ AddInsert(p) \/ AddCommit(p)
    \/ CarryCheck(p) \/ CarryInsert(p) \/ CarryCommit(p)
    \/ UndoSelect(p) \/ UndoDelete(p) \/ UndoCommit(p)
    \/ ReplyDelivered(p) \/ ReplyRetry(p) \/ ReplyLost(p) \/ ErrorHandler(p)

NextGate == \E p \in {1, 2} : StartGate(p) \/ StepGate(p) \/ BusyFail(p)

SpecGate == Init /\ [][NextGate]_vars

\* SpecLock: two handlers interleave open and close with an add that can hold
\* the file's write lock against them.  A handler that can take a step takes
\* one (every awaited call returns or raises), and asyncio.Lock wakes its
\* waiters in arrival order, so a waiter for which the lock is free again
\* and again gets it.
LockCmds ==
    { Cmd(k, 1, "alice", NoToken, <<>>) : k \in {"open", "close"} }
      \cup { Cmd("add", 1, "alice", Tok("+", 5), <<>>),
             Cmd("open", 1, "guest", NoToken, <<>>) }

StartLock(p) ==
    \E c \in LockCmds : Room(c, MaxBillsLock, MaxCyclesLock) /\ StartCmd(p, c)

StepLock(p) ==
    \/ Auth(p) \/ GacRead(p) \/ GacSet(p)
    \/ OpenUpdate(p) \/ OpenInsert(p) \/ OpenCommit(p) \/ OpenPrev(p)
    \/ CloseSummary(p) \/ CloseUpdate(p) \/ CloseDelete(p) \/ CloseInsert(p)
    \/ CloseCommit(p) \/ CloseFail(p)
    \/ AddInsert(p) \/ AddCommit(p)
    \/ ReplyDelivered(p) \/ ReplyRetry(p) \/ ReplyLost(p) \/ ErrorHandler(p)

NextLock == \E p \in {1, 2} : StartLock(p) \/ StepLock(p) \/ BusyFail(p)

SpecLock ==
    /\ Init /\ [][NextLock]_vars
    /\ \A p \in {1, 2} : WF_vars(StepLock(p) \/ BusyFail(p)) /\ SF_vars(Auth(p))

\* SpecTwo: two handlers interleave open and close of two groups, and an add
\* of the first.
TwoCmds ==
    { Cmd(k, g, "alice", NoToken, <<>>) : k \in {"open", "close"}, g \in Groups }
      \cup { Cmd("add", 1, "alice", Tok("+", 5), <<>>) }

StartTwo(p) ==
    \E c \in TwoCmds : Room(c, MaxBillsTwo, MaxCyclesTwo) /\ StartCmd(p, c)

NextTwo == \E p \in {1, 2} : StartTwo(p) \/ StepLock(p) \/ BusyFail(p)

SpecTwo == Init /\ [][NextTwo]_vars

\* SpecOps: two handlers interleave the operator commands of an administrator
\* and of a member with an open and the adds of members.
OpsCmds ==
    { Cmd("open", 1, "alice", NoToken, <<>>),
      Cmd("add", 1, "carol", Tok("+", 5), <<>>),
      Cmd("add", 1, "guest", Tok("-", 3), <<>>) }

OpsOpCmds ==
    { OpCmd(k, 1, "alice", t, <<>>) : k \in {"grant", "revoke"}, t \in {"carol", "guest"} }
      \cup { OpCmd("grant", 1, "alice", "", <<"@", "carol">>),
             OpCmd("grant", 1, "alice", "", <<>>),
             OpCmd("grant", 1, "carol", "guest", <<>>),
             OpCmd("list", 1, "alice", "", <<>>) }

StartOps(p) ==
    \/ \E c \in OpsCmds : Room(c, MaxBillsOps, MaxCyclesOps) /\ StartCmd(p, c)
    \/ \E c \in OpsOpCmds : StartOp(p, c)

StepOps(p) ==
    \/ Auth(p) \/ GacRead(p) \/ GacSet(p)
    \/ OpenUpdate(p) \/ OpenInsert(p) \/ OpenCommit(p) \/ OpenPrev(p)
    \/ AddInsert(p) \/ AddCommit(p)
    \/ OpAdmin(p) \/ OpLookup(p) \/ OpRecord(p) \/ OpWrite(p) \/ OpCommit(p)
    \/ OpList(p)
    \/ ReplyDelivered(p) \/ ReplyRetry(p) \/ ReplyLost(p) \/ ErrorHandler(p)

NextOps == \E p \in {1, 2} : StartOps(p) \/ StepOps(p) \/ BusyFail(p)

SpecOps == Init /\ [][NextOps]_vars

\* SpecSeq: one handler at a time (the dispatcher awaits each handler before it
\* takes the next update), with the commands of the spec's end-to-end scenario.
AllIdle == \A q \in Procs : h[q].pc = "idle"

SeqCmds ==
    { Cmd(k, 1, "alice", NoToken, <<>>) : k \in {"open", "close", "undo"} }
      \cup { Cmd("add", 1, "alice", Tok("+", 1000), <<"deposit">>),
             Cmd("add", 1, "alice", Tok("-", 300), <<"withdraw">>),
             Cmd("add", 1, "alice", Tok("+", 0), <<>>),
             Cmd("add", 1, "alice", Tok("-", 0), <<>>),
             Cmd("add", 1, "guest", Tok("+", 1000), <<>>),
             Cmd("carry", 1, "alice", Tok("+", 200), <<"carry">>),
             Cmd("carry", 1, "bob", Tok("", 200), <<>>),
             Cmd("carry", 1, "alice", NoToken, <<>>),
             Cmd("carry", 1, "alice", BadToken, <<>>),
             Cmd("close", 1, "guest", NoToken, <<>>) }

StartSeq(p) ==
    \E c \in SeqCmds :
        AllIdle /\ Room(c, MaxBillsSeq, MaxCyclesSeq) /\ StartCmd(p, c)

PressSeq(p) ==
    \E tok \in offers[1] :
        /\ AllIdle
        /\ BillRoom(1, MaxBillsSeq)
        /\ StartImport(p, Cmd("import", 1, "alice", tok, <<>>))

NextSeq == StartSeq(1) \/ PressSeq(1) \/ Step(1)

SpecSeq == Init /\ [][NextSeq]_vars

\* SpecOnce: the commands and the scheduling of SpecSeq, with the history of
\* the committed imports kept.
SpecOnce == InitTracked /\ [][NextSeq]_vars

\* SpecSum: one handler at a time, an admin's deposits, withdrawals and
\* carry-overs over two cycles.
SumCmds ==
    { Cmd(k, 1, "alice", NoToken, <<>>) : k \in {"open", "close", "undo"} }
      \cup { Cmd("add", 1, "alice", Tok("+", 1000), <<"deposit">>),
             Cmd("add", 1, "alice", Tok("-", 300), <<"withdraw">>),
             Cmd("carry", 1, "alice", Tok("+", 200), <<"carry">>) }

StartSum(p) ==
    \E c \in SumCmds :
        AllIdle /\ Room(c, MaxBillsSum, MaxCyclesSum) /\ StartCmd(p, c)

PressSum(p) ==
    \E tok \in offers[1] :
        /\ AllIdle
        /\ BillRoom(1, MaxBillsSum)
        /\ StartImport(p, Cmd("import", 1, "alice", tok, <<>>))

NextSum == StartSum(1) \/ PressSum(1) \/ Step(1)

SpecSum == Init /\ [][NextSum]_vars

\* SpecPage: one handler at a time fills one cycle with deposits and pages
\* through its details listing.
PageCmds ==
    { Cmd("open", 1, "alice", NoToken, <<>>),
      Cmd("add", 1, "alice", Tok("+", 1), <<>>) }

StartPage(p) ==
    \E c \in PageCmds :
        AllIdle /\ Room(c, MaxBillsPage, 1) /\ StartCmd(p, c)

PressDetails(p) ==
    \E cycle_id \in 1..Len(db[1].cycles) : \E page \in 1..MaxPage :
        AllIdle /\ StartDetails(p, 1, cycle_id, page)

StepPage(p) ==
    \/ Auth(p) \/ GacRead(p) \/ GacSet(p)
    \/ OpenUpdate(p) \/ OpenInsert(p) \/ OpenCommit(p) \/ OpenPrev(p)
    \/ AddInsert(p) \/ AddCommit(p)
    \/ DetailsCount(p) \/ DetailsPage(p)
    \/ ReplyDelivered(p) \/ ReplyRetry(p) \/ ReplyLost(p) \/ ErrorHandler(p)

NextPage == StartPage(1) \/ PressDetails(1) \/ StepPage(1)

SpecPage == Init /\ [][NextPage]_vars

\* SpecPageFair: SpecPage where a handler that can take a step takes one (every
\* awaited call returns or raises, and the event loop resumes the coroutine).
SpecPageFair == SpecPage /\ WF_vars(StepPage(1))

\* SpecLong: one handler at a time, one cycle, long ledgers of small entries.
LongCmds ==
    { Cmd(k, 1, "alice", NoToken, <<>>) : k \in {"open", "undo"} }
      \cup { Cmd("add", 1, "alice", Tok("+", 1), <<>>),
             Cmd("add", 1, "alice", Tok("-", 1), <<>>),
             Cmd("carry", 1, "alice", Tok("-", 2), <<>>) }

StartLong(p) ==
    \E c \in LongCmds :
        AllIdle /\ Room(c, MaxBillsLong, 1) /\ StartCmd(p, c)

StepLong(p) ==
    \/ Auth(p) \/ GacRead(p) \/ GacSet(p)
    \/ OpenUpdate(p) \/ OpenInsert(p) \/ OpenCommit(p) \/ OpenPrev(p)
    \/ AddInsert(p) \/ AddCommit(p)
    \/ CarryCheck(p) \/ CarryInsert(p) \/ CarryCommit(p)
    \/ UndoSelect(p) \/ UndoDelete(p) \/ UndoCommit(p)
    \/ ReplyDelivered(p) \/ ReplyRetry(p) \/ ReplyLost(p) \/ ErrorHandler(p)

NextLong == StartLong(1) \/ StepLong(1)

SpecLong == InitTracked /\ [][NextLong]_vars

\* SpecNote: one handler at a time, one cycle, adds whose note is plain text,
\* empty, or text that starts with the reserved prefix, and a carry.
NoteCmds ==
    { Cmd("open", 1, "alice", NoToken, <<>>),
      Cmd("undo", 1, "alice", NoToken, <<>>),
      Cmd("add", 1, "alice", Tok("+", 100), <<"rent">>),
      Cmd("add", 1, "alice", Tok("-", 30), <<>>),
      Cmd("add", 1, "alice", Tok("+", 100), CARRY_PREFIX \o <<"rent">>),
      Cmd("add", 1, "alice", Tok("-", 30), CARRY_PREFIX),
      Cmd("carry", 1, "alice", Tok("+", 200), <<>>) }

StartNote(p) ==
    \E c \in NoteCmds : AllIdle /\ Room(c, MaxBillsNote, 1) /\ StartCmd(p, c)

NextNote == StartNote(1) \/ StepLong(1)

SpecNote == Init /\ [][NextNote]_vars

\* SpecAdd: after one open, only add commands run, up to three at a time.
AddCmds ==
    { Cmd("add", 1, "alice", Tok("+", 5), <<>>),
      Cmd("add", 1, "alice", Tok("-", 3), <<>>) }

StartOpenFirst(p) ==
    /\ AllIdle
    /\ db[1].cycles = <<>>
    /\ StartCmd(p, Cmd("open", 1, "alice", NoToken, <<>>))

StartAdd(p) ==
    \E c \in AddCmds :
        /\ Len(db[1].cycles) = 1
        /\ \A q \in Procs : h[q].c.cmd # "open"
        /\ BillRoom(1, MaxAdds)
        /\ StartCmd(p, c)

StepAdd(p) ==
    \/ Auth(p) \/ GacRead(p) \/ GacSet(p)
    \/ OpenUpdate(p) \/ OpenInsert(p) \/ OpenCommit(p) \/ OpenPrev(p)
    \/ AddInsert(p) \/ AddCommit(p)
    \/ ReplyDelivered(p) \/ ReplyRetry(p) \/ ReplyLost(p) \/ ErrorHandler(p)
    \/ BusyFail(p)

NextAdd == \E p \in Procs : StartOpenFirst(p) \/ StartAdd(p) \/ StepAdd(p)

SpecAdd == InitTracked /\ [][NextAdd]_vars

----------------------------------------------------------------------------
(* The ledger as the specification states it, by sets of rows *)

RECURSIVE SumRows(_, _)
SumRows(S, bills) ==
    IF S = {} THEN 0
    ELSE LET i == CHOOSE j \in S : TRUE
         IN  bills[i].amount + SumRows(S \ {i}, bills)

RowsOf(d, cycle_id) == {i \in 1..Len(d.bills) : d.bills[i].cycle_id = cycle_id}
CarryRows(d, cycle_id) == {i \in RowsOf(d, cycle_id) : IsCarry(d.bills[i].description)}
DepositRows(d, cycle_id) ==
    {i \in RowsOf(d, cycle_id) \ CarryRows(d, cycle_id) : d.bills[i].amount > 0}
WithdrawalRows(d, cycle_id) ==
    {i \in RowsOf(d, cycle_id) \ CarryRows(d, cycle_id) : d.bills[i].amount < 0}

\* deposits - |withdrawals| + carry-over entries
LedgerNet(d, cycle_id) ==
    SumRows(DepositRows(d, cycle_id), d.bills)
      - Abs(SumRows(WithdrawalRows(d, cycle_id), d.bills))
      + SumRows(CarryRows(d, cycle_id), d.bills)

ActiveCount(d) == Cardinality({i \in 1..Len(d.cycles) : d.cycles[i].is_active})

\* The files a handler can read: each committed file and each writer's work.
Files == {db[g] : g \in Groups} \cup {wtx[g].work : g \in Groups}

----------------------------------------------------------------------------
(* C1 *)

\* C1: in every reachable state, under every interleaving of open and close
\* handlers, a group's file holds at most one cycle with is_active = TRUE.
C1_AtMostOneActive == \A d \in Files : ActiveCount(d) <= 1

\* A second open waits for the group lock while the first, past its commit,
\* still holds it, and the file holds one active cycle.
C1_Witness ==
    \E p, q \in Procs :
        /\ h[p].c.cmd = "open" /\ h[p].pc = "o_prev"
        /\ h[q].c.cmd = "open" /\ h[q].pc = "auth" /\ h[q].c.actor = "alice"
        /\ lock[1] = p
        /\ ActiveCount(db[1]) = 1

----------------------------------------------------------------------------
(* C2 *)

\* The handler of a ledger command is past its first read of the file and has
\* not yet committed.
MidPcs ==
    { "gac_set", "o_update", "o_insert", "o_commit",
      "c_update", "c_delete", "c_insert", "c_commit",
      "a_commit", "k_insert", "k_commit", "i_insert", "i_commit",
      "u_delete", "u_commit" }

\* C2: no two ledger-mutating operations of one group overlap between their
\* first read of the store and their commit.
C2_NoOverlap ==
    \A p, q \in Procs :
        (p # q /\ h[p].pc \in MidPcs /\ h[q].pc \in MidPcs) => Grp(p) # Grp(q)

----------------------------------------------------------------------------
(* C3 *)

\* C3: in every reachable state each cycle holds at most one bill whose
\* description starts with the carry-over prefix.
C3_OneCarryPerCycle ==
    \A g \in Groups : \A c \in 1..Len(db[g].cycles) :
        Cardinality(CarryRows(db[g], c)) <= 1

----------------------------------------------------------------------------
(* C4 *)

Permuted(d, perm) == [d EXCEPT !.bills = [i \in 1..Len(d.bills) |-> d.bills[perm[i]]]]

----------------------------------------------------------------------------
(* C5 *)

\* previous_balances as a close of a cycle with this net balance leaves it
RowsFor(net) == IF net = 0 THEN <<>> ELSE <<net>>

\* C5: with one handler at a time, after a successful close the
\* previous_balances table holds no row when the closed cycle's net balance is
\* 0 and exactly the one row of that balance otherwise, and the open that
\* follows reads that amount back.
C5_CloseStoresNet ==
    LET d == db[1]
        n == Len(d.cycles)
    IN  /\ (n >= 1 /\ ActiveCycleId(d) = 0)
              => d.previous_balances = RowsFor(LedgerNet(d, n))
        /\ \A p \in Procs :
              (h[p].pc = "reply" /\ h[p].msg = "opened")
                 => h[p].prev = (IF n >= 2 THEN LedgerNet(d, n - 1) ELSE 0)

\* The second close found a net balance of 0 and removed the row the first
\* close had stored (the first open offered its import).
C5_Witness ==
    /\ \E p \in Procs : h[p].pc = "reply" /\ h[p].msg = "closed"
    /\ Len(db[1].cycles) = 2
    /\ db[1].previous_balances = <<>>
    /\ offers[1] # {}

----------------------------------------------------------------------------
(* C6 *)

\* C6: with one handler at a time, an undo that follows an add or a carry
\* leaves the bills exactly as they were before that entry, and its summary
\* (totals, counts, previous_balance, net_balance, both last-5 lists) is the
\* summary of that earlier state.
C6_UndoInvertsAdd ==
    \A p \in Procs :
        (h[p].pc = "reply" /\ h[p].msg = "undone" /\ ghost[Grp(p)].last = "undo_of_add")
          => LET before == [db[Grp(p)] EXCEPT !.bills = ghost[Grp(p)].before]
             IN  /\ db[Grp(p)].bills = ghost[Grp(p)].before
                 /\ h[p].summary = get_cycle_summary(before, h[p].cycle_id)

\* The undo took back the sixth deposit of a cycle: the last-5 list had dropped
\* the oldest deposit and shows it again.
C6_Witness ==
    \E p \in Procs :
        /\ h[p].pc = "reply" /\ h[p].msg = "undone"
        /\ ghost[1].last = "undo_of_add"
        /\ h[p].summary.deposit_count = 5
        /\ Len(h[p].summary.deposits) = 5
        /\ db[1].seq_bills = 6

----------------------------------------------------------------------------
(* C7 *)

\* C7: when only add commands run after the open, however their handlers
\* interleave, every committed add is exactly one bill of its own: the cycle
\* holds as many bills as adds have committed, no bill_id occurs twice, and the
\* deposit count is the number of committed adds with a positive amount.
C7_EachAddOnce ==
    LET d == db[1]
    IN  /\ Len(d.bills) = ghost[1].adds
        /\ \A i, j \in 1..Len(d.bills) : d.bills[i].bill_id = d.bills[j].bill_id => i = j
        /\ \A i \in 1..Len(d.bills) : d.bills[i].cycle_id = 1
        /\ get_cycle_summary(d, 1).deposit_count = ghost[1].deposits
        /\ Cardinality(DepositRows(d, 1)) = ghost[1].deposits

\* Three add handlers are in flight at once, one inside its transaction and two
\* waiting for the write lock, after an earlier add has committed.
C7_Witness ==
    /\ h[1].pc = "a_commit" /\ h[2].pc = "a_insert" /\ h[3].pc = "a_insert"
    /\ ghost[1].adds >= 1

----------------------------------------------------------------------------
(* C8 *)

\* C8: an add of amount 0 appends nothing, so no stored bill has amount 0.
C8_NoZeroAmount ==
    \A g \in Groups : \A i \in 1..Len(db[g].bills) : db[g].bills[i].amount # 0

----------------------------------------------------------------------------
(* C9 *)

\* A step of a carry or import handler, taken while the group's active cycle
\* already holds a carry-over bill.
SecondCarryStep(p) ==
    /\ h'[p] # h[p]
    /\ h'[p].c.cmd \in {"carry", "import"}
    /\ ActiveCycleId(db[1]) # 0
    /\ CarryRows(db[1], ActiveCycleId(db[1])) # {}

\* C9 as claimed: such a handler, run without interleaving, changes no table of
\* the store.
C9_SecondCarryChangesNothing ==
    [][\A p \in Procs : SecondCarryStep(p) => db' = db]_vars

\* d without the users table
Ledger(d) == [d EXCEPT !.users = {}]

\* C9 amended: such a handler, run without interleaving, leaves cycles, bills,
\* previous_balances and operators unchanged and never reaches its INSERT; its
\* guard answers "already imported"; the one table it may change is users,
\* where record_user upserts the sender's own row.
C9_SecondCarryRejected ==
    [][\A p \in Procs : SecondCarryStep(p) =>
          /\ Ledger(db'[1]) = Ledger(db[1])
          /\ db'[1].users \ db[1].users \subseteq
                 {<<h'[p].c.actor, <<"@">> \o Username(h'[p].c.actor)>>}
          /\ h'[p].pc \notin {"k_insert", "k_commit", "i_insert", "i_commit"}
          /\ h[p].pc \in {"k_check", "i_check"} =>
                 h'[p].pc = "reply" /\ h'[p].msg = "already_imported"
      ]_vars

\* The import button is pressed a second time in the same cycle and the
\* handler answers "already imported".
C9_Witness ==
    \E p \in Procs :
        /\ h[p].pc = "reply" /\ h[p].msg = "already_imported"
        /\ h[p].c.cmd = "import"

----------------------------------------------------------------------------
(* C10 *)

\* Cycle 1 holds exactly the entries of the scenario
\* open, '+1000 deposit', '-300 withdraw', 'jieyu +200 carry'.
Scenario ==
    LET rows == BillsOf(db[1], 1)
    IN  /\ Len(rows) = 3
        /\ rows[1].amount = 1000 /\ rows[1].description = <<"deposit">>
        /\ rows[2].amount = -300 /\ rows[2].description = <<"withdraw">>
        /\ rows[3].amount = 200 /\ rows[3].description = CarryDescription(<<"carry">>)

\* C10: the close of the scenario reports deposits 1000 (1 entry), withdrawals
\* 300 (1 entry), previous_balance 200 and net_balance 900, and the next open
\* reads 900 back and offers its import.
C10_Scenario ==
    \A p \in Procs :
        /\ (h[p].pc = "reply" /\ h[p].msg = "closed" /\ h[p].cycle_id = 1 /\ Scenario)
             => /\ h[p].summary.total_deposits = 1000
                /\ h[p].summary.deposit_count = 1
                /\ h[p].summary.total_withdrawals = 300
                /\ h[p].summary.withdrawal_count = 1
                /\ h[p].summary.previous_balance = 200
                /\ h[p].summary.net_balance = 900
                /\ db[1].previous_balances = <<900>>
        /\ (h[p].pc = "reply" /\ h[p].msg = "opened" /\ Len(db[1].cycles) = 2 /\ Scenario)
             => /\ h[p].prev = 900
                /\ ParseInt(FormatInt(h[p].prev)) = 900
        /\ (h[p].pc = "idle" /\ ActiveCycleId(db[1]) = 2 /\ Scenario /\ offers[1] # {})
             => offers[1] = {FormatInt(900)}

\* The open after the scenario's close has delivered its import button.
C10_Witness ==
    /\ Scenario
    /\ ActiveCycleId(db[1]) = 2
    /\ offers[1] = {FormatInt(900)}
    /\ AllIdle

----------------------------------------------------------------------------
(* C11 *)

\* The bills of a cycle, newest first.
NewestFirst(d, cycle_id) == Reverse(BillsOf(d, cycle_id))

\* max(1, ceil(n / size)): the least k >= 1 with k * size >= n
PagesFor(n, size) ==
    CHOOSE k \in 1..(n + 1) : k * size >= n /\ \A j \in 1..(k - 1) : j * size < n

\* C11: for a cycle of n bills and a page p >= 1, the details listing reports
\* total_pages = max(1, ceil(n / 10)) and shows the bills at the newest-first
\* positions (p - 1) * 10 .. min(p * 10, n) - 1; past the last page the slice is
\* empty and total_pages is the same (25 bills: 3 pages, 5 bills on page 3,
\* none on page 4).
C11_Pagination ==
    \A p \in Procs :
        (h[p].pc = "reply" /\ h[p].msg = "details")
          => LET all == NewestFirst(db[Grp(p)], h[p].cycle_id)
                 n == Len(all)
                 page == h[p].c.tok.mag
                 first == (page - 1) * 10
                 last == Min(page * 10, n) - 1
             IN  /\ h[p].total_pages = PagesFor(n, 10)
                 /\ Len(h[p].listing) = (IF last >= first THEN last - first + 1 ELSE 0)
                 /\ \A i \in 1..Len(h[p].listing) : h[p].listing[i] = all[first + i]
                 /\ (page > h[p].total_pages) => (h[p].listing = <<>>)
                 /\ (n = 25) => (h[p].total_pages = 3)
                 /\ (n = 25 /\ page = 3) => (Len(h[p].listing) = 5)
                 /\ (n = 25 /\ page = 4) => (Len(h[p].listing) = 0)

\* Page 4 of a cycle of 25 bills has been computed: no bill, three pages.
C11_Witness ==
    \E p \in Procs :
        /\ h[p].pc = "reply" /\ h[p].msg = "details"
        /\ h[p].total_items = 25
        /\ h[p].c.tok.mag = 4
        /\ h[p].listing = <<>>
        /\ h[p].total_pages = 3

----------------------------------------------------------------------------
(* C12 *)

\* A statement of close's transaction fails in this step of handler p.
CloseFailStep(p) ==
    /\ h[p].c.cmd = "close"
    /\ h[p].pc \in {"c_update", "c_delete", "c_insert", "c_commit"}
    /\ h'[p].pc = "reply" /\ h'[p].msg = "close_failed"

\* C12: when a statement of close's transaction fails, the transaction is
\* rolled back: no table of the file differs from before the close, the cycle
\* is still active with no end_time, no transaction of the handler is left
\* open, and the cached active-cycle id is still there.
C12_CloseRollsBack ==
    [][\A p \in Procs : CloseFailStep(p) =>
          LET g == Grp(p)
              cid == h[p].cycle_id
          IN  /\ db' = db
              /\ db'[g].cycles[cid] = [is_active |-> TRUE, ended |-> FALSE]
              /\ wtx'[g] = NoTx
              /\ cache' = cache /\ cache'[g] = cid
      ]_vars

\* A close has failed and answers "failed, rolled back" under the group lock;
\* its transaction would have replaced the stored balance of the cycle before.
C12_Witness ==
    \E p \in Procs :
        /\ h[p].pc = "reply" /\ h[p].msg = "close_failed"
        /\ lock[1] = p
        /\ db[1].previous_balances # <<>>
        /\ h[p].summary.net_balance # get_previous_balance(db[1])
        /\ ActiveCycleId(db[1]) = 2

----------------------------------------------------------------------------
(* C13 *)

\* C13: once a cycle is no longer active, no step inserts a bill into it or
\* deletes one from it.
C13_ClosedCycleFrozen ==
    [][\A g \in Groups : \A c \in 1..Len(db[g].cycles) :
          ~db[g].cycles[c].is_active => BillsOf(db'[g], c) = BillsOf(db[g], c)
      ]_vars

----------------------------------------------------------------------------
(* C14 *)

\* C14: while no open or close of the group is inside its critical section,
\* a cached active-cycle id is the id of the group's active cycle in the file.
C14_CacheCoherent ==
    \A g \in Groups :
        (lock[g] = 0 /\ cache[g] # 0) => ActiveCycleId(db[g]) = cache[g]

\* C14, the consequence: an open is never rejected as "already active" while
\* the file holds no active cycle.
C14_OpenNotRejected ==
    \A p \in Procs :
        (h[p].pc = "reply" /\ h[p].msg = "already_active")
          => ActiveCycleId(db[Grp(p)]) # 0

----------------------------------------------------------------------------
(* C15 *)

\* C15: a delivery through _robust_telegram_call makes at most MAX_RETRIES
\* attempts; an attempt is followed by another only when it timed out; a
\* success or any other failure ends the call at once; and the call always
\* ends.
C15_BoundedRetry ==
    /\ [](\A p \in Procs : h[p].pc = "reply" =>
              /\ h[p].attempt < MAX_RETRIES
              /\ h[p].attempt > 0 => (h[p].outcome = "timed_out" /\ Robust(h[p].c, h[p].msg)))
    /\ [][\A p \in Procs : (h[p].pc = "reply" /\ h'[p] # h[p]) =>
              \/ h'[p].pc = "reply" /\ h'[p].attempt = h[p].attempt + 1
              \/ h'[p].pc \in {"idle", "error_handler"}
        ]_vars
    /\ \A p \in Procs : (h[p].pc = "reply") ~> (h[p].pc # "reply")

\* The third and last attempt of a summary reply is under way after two
\* timeouts.
C15_Witness ==
    \E p \in Procs :
        /\ h[p].pc = "reply" /\ h[p].msg = "added"
        /\ h[p].attempt = 2 /\ h[p].outcome = "timed_out"

----------------------------------------------------------------------------
(* C16 *)

\* The replies that report a committed ledger change.
CommittedReplies == {"opened", "closed", "added", "carried", "undone", "imported"}

\* C16: a reply of a committed command that cannot be delivered never raises
\* out of the handler, so error_handler never runs (and never notifies the
\* chat of an internal error) for a command whose change is committed.
C16_ReplyFailureSwallowed ==
    \A p \in Procs : h[p].pc = "error_handler" => h[p].msg \notin CommittedReplies

----------------------------------------------------------------------------
(* C17 *)

\* C17: a handler that holds a group's lock eventually releases it, whatever
\* path it takes, and an open or close that waits for the lock eventually
\* gets past it.
C17_LockReleased ==
    /\ \A g \in Groups : \A p \in Procs : (lock[g] = p) ~> (lock[g] # p)
    /\ \A p \in Procs :
          (h[p].pc = "auth" /\ Locked(h[p].c.cmd)) ~> (h[p].pc # "auth")

\* A close whose transaction failed still holds the lock for its failure
\* reply while another open or close waits for it.
C17_Witness ==
    \E p, q \in Procs :
        /\ lock[1] = p
        /\ h[p].pc = "reply" /\ h[p].msg = "close_failed"
        /\ h[q].pc = "auth" /\ Locked(h[q].c.cmd)

----------------------------------------------------------------------------
(* C18 *)

\* The group a handler's step works for (a starting handler: the group of the
\* update it picks up).
GroupOfStep(p) == IF h[p].pc = "idle" THEN h'[p].c.group ELSE h[p].c.group

\* A step of a handler for group g leaves the file, the write transaction,
\* the lock and the cached cycle id of every other group as they were.
OtherGroupsUntouched ==
    \A p \in Procs :
        h'[p] # h[p] =>
            \A g \in Groups \ {GroupOfStep(p)} :
                /\ db'[g] = db[g] /\ wtx'[g] = wtx[g]
                /\ cache'[g] = cache[g] /\ lock'[g] = lock[g]

\* An open or close that cannot enter its locked block is kept out by a
\* handler of its own group.
WaitsOnOwnGroupOnly ==
    \A p \in Procs :
        (h[p].pc = "auth" /\ ~ENABLED Auth(p)) =>
            \E q \in Procs \ {p} : lock[Grp(p)] = q /\ Grp(q) = Grp(p)

\* C18: operations on distinct groups are independent: none waits on a lock
\* held for another group, and none changes another group's cycles, entries,
\* carried balance, operator grants or cached active-cycle id.
C18_GroupsIndependent ==
    /\ [][OtherGroupsUntouched]_vars
    /\ [](WaitsOnOwnGroupOnly)

\* Handlers of the two groups are inside their locked blocks at once, each in
\* its own write transaction.
C18_Witness ==
    \E p, q \in Procs :
        /\ Grp(p) = 1 /\ Grp(q) = 2
        /\ lock[1] = p /\ lock[2] = q
        /\ wtx[1].owner = p /\ wtx[2].owner = q

----------------------------------------------------------------------------
(* C19 *)

\* The replies that report a state error.
StateErrors == {"already_active", "no_active_cycle", "empty_ledger"}

\* Handler p has not yet decided whether its command is to be rejected.
Undecided(p) == h[p].pc \in {"auth", "gac_read", "gac_set", "u_select"}

\* The state error the command of the undecided handler p must be rejected
\* with in the present state of its group's file ("" if none).
StateError(p) ==
    LET c == h[p].c
        d == db[c.group]
        active == ActiveCycleId(d)
    IN  IF ~Undecided(p) \/ ~is_authorized_user(d, c.actor) THEN ""
        ELSE IF c.cmd = "open" /\ active # 0 THEN "already_active"
        ELSE IF c.cmd \in {"close", "add", "carry", "undo"} /\ active = 0
          THEN "no_active_cycle"
        ELSE IF c.cmd = "undo" /\ LastBillId(d, active) = 0 THEN "empty_ledger"
        ELSE ""

\* A step of a command that is to be rejected changes no row of the ledger
\* and opens no write transaction, and it leads to the reply of that state
\* error; the steps that deliver that reply change nothing either.
RejectedStep(p) ==
    /\ StateError(p) # "" =>
          /\ Ledger(db'[Grp(p)]) = Ledger(db[Grp(p)])
          /\ wtx' = wtx /\ wtx[Grp(p)] = NoTx
          /\ h'[p] # h[p] =>
                \/ Undecided(p)' /\ StateError(p)' = StateError(p)
                \/ h'[p].pc = "reply" /\ h'[p].msg = StateError(p)
    /\ h[p].pc \in {"reply", "error_handler"} /\ h[p].msg \in StateErrors =>
          /\ db' = db /\ wtx' = wtx /\ wtx[Grp(p)] = NoTx
          /\ h'[p].pc # "idle" => h'[p].msg = h[p].msg

\* C19: a command rejected with a state error (open while a cycle is active,
\* close / add / carry / undo with no active cycle, undo on an active cycle
\* with no entries) changes no Cycle, Entry, CarriedBalance or OperatorGrant
\* row.
C19_RejectionChangesNothing == [][\A p \in Procs : RejectedStep(p)]_vars

\* An undo on an active cycle without entries has been rejected, in a file
\* that already holds a closed cycle and a carried balance.
C19_Witness ==
    \E p \in Procs :
        /\ h[p].pc = "reply" /\ h[p].msg = "empty_ledger"
        /\ h[p].c.cmd = "undo"
        /\ ActiveCycleId(db[1]) = 2 /\ LastBillId(db[1], 2) = 0
        /\ db[1].previous_balances # <<>>

----------------------------------------------------------------------------
(* C20 *)

\* C20: the importbalance callback is one-shot: an offer whose import has
\* been committed once never commits another entry, whatever undo, close and
\* open ran in between.
C20_ImportOneShot ==
    [][\A p \in Procs :
          (h[p].pc = "i_commit" /\ h'[p].msg = "imported")
              => h[p].c.tok \notin ghost[Grp(p)].consumed]_vars

----------------------------------------------------------------------------
(* C21 *)

\* The sender of the command the step of handler p belongs to (a starting
\* handler: the sender of the update it picks up).
ActorOfStep(p) == IF h[p].pc = "idle" THEN h'[p].c.actor ELSE h[p].c.actor

\* The cycles, bills and carried balance of a file.
Books(d) == <<d.cycles, d.bills, d.previous_balances>>

\* A step of handler p that changes the cycles, bills or carried balance of a
\* group is a step of a ledger command for that group whose sender was an
\* administrator or held a grant when authorization was checked.
BooksChangeAuthorized(p) ==
    \A g \in Groups :
        (h'[p] # h[p] /\ Books(db'[g]) # Books(db[g])) =>
            /\ g = Grp(p)
            /\ h[p].c.cmd \in {"open", "close", "add", "carry", "undo", "import"}
            /\ is_admin(h[p].c.actor) \/ h[p].held_grant

\* A step that inserts or deletes a grant is a step of a grant or revoke
\* command of an administrator.
GrantsChangeByAdmin(p) ==
    \A g \in Groups :
        (h'[p] # h[p] /\ db'[g].operators # db[g].operators) =>
            /\ g = Grp(p)
            /\ h[p].c.cmd \in {"grant", "revoke"}
            /\ is_admin(h[p].c.actor)

\* The steps of a command whose sender is neither an administrator nor a
\* grant holder change no row of any table.
OthersChangeNothing(p) ==
    (/\ h'[p] # h[p]
     /\ ~is_admin(ActorOfStep(p))
     /\ ActorOfStep(p) \notin db[GroupOfStep(p)].operators) => db' = db

\* The same for the cycles, bills, carried balance and grants only.
OthersChangeNoBooks(p) ==
    (/\ h'[p] # h[p]
     /\ ~is_admin(ActorOfStep(p))
     /\ ~h[p].held_grant
     /\ ActorOfStep(p) \notin db[GroupOfStep(p)].operators) =>
        \A g \in Groups : Ledger(db'[g]) = Ledger(db[g])

----------------------------------------------------------------------------
(* C25 *)

\* C25: every operators row refers to a user that has a users row in the same
\* file, for a grant by reply to a user with or without a username and for a
\* grant by '@name'; so the operator listing, a join of the two tables, shows
\* every user that holds a grant.
C25_GrantsHaveParticipants ==
    \A g \in Groups :
        /\ \A o \in db[g].operators : \E u \in db[g].users : u[1] = o
        /\ Cardinality(OperatorNames(db[g])) = Cardinality(db[g].operators)

----------------------------------------------------------------------------
(* C22 *)

\* C22: close is atomic with respect to the entry commands that run beside
\* it: when a close commits, the carried balance it leaves (no row: 0) is the
\* net balance of the entries the closed cycle holds, and the summary the
\* close reports is the summary of those entries.
C22_CloseAtomic ==
    [][\A p \in Procs :
          (h[p].pc = "c_commit" /\ h'[p].msg = "closed") =>
              LET d == db'[Grp(p)]
                  now == get_cycle_summary(d, h[p].cycle_id)
              IN  /\ ~d.cycles[h[p].cycle_id].is_active
                  /\ get_previous_balance(d) = now.net_balance
                  /\ h'[p].summary = now]_vars

----------------------------------------------------------------------------
(* C23 *)

\* C23: every successful add appends an ordinary entry whatever its note: a
\* positive amount raises deposit_count by 1 and total_deposits by the amount,
\* a negative one withdrawal_count by 1 and total_withdrawals by its absolute
\* value, and neither changes previous_balance nor the number of carry-over
\* entries of the cycle, also when the note starts with the reserved prefix.
C23_AddIsOrdinary ==
    [][\A p \in Procs :
          (h[p].pc = "a_commit" /\ h'[p].msg = "added") =>
              LET g == Grp(p)
                  cid == h[p].cycle_id
                  amount == ParseInt(h[p].c.tok)
                  before == get_cycle_summary(db[g], cid)
                  after == get_cycle_summary(db'[g], cid)
              IN  /\ amount > 0 =>
                        /\ after.deposit_count = before.deposit_count + 1
                        /\ after.total_deposits = before.total_deposits + amount
                  /\ amount < 0 =>
                        /\ after.withdrawal_count = before.withdrawal_count + 1
                        /\ after.total_withdrawals = before.total_withdrawals + Abs(amount)
                  /\ after.previous_balance = before.previous_balance
                  /\ Cardinality(CarryRows(db'[g], cid)) = Cardinality(CarryRows(db[g], cid))]_vars

----------------------------------------------------------------------------
(* C24 *)

\* The bills of d without the one whose id is bill_id.
Without(bills, bill_id) == SelectSeq(bills, LAMBDA b : b.bill_id # bill_id)

\* A committed undo removed exactly the bill with the greatest id of the
\* active cycle, whatever its kind, and if that bill was the cycle's
\* carry-over entry the cycle has none afterwards.
UndoStep(p) ==
    (h[p].pc = "u_commit" /\ h'[p].msg = "undone") =>
        LET d == db[Grp(p)]
            cid == ActiveCycleId(d)
            last == LastBillId(d, cid)
            gone == {i \in 1..Len(d.bills) : d.bills[i].bill_id = last}
        IN  /\ cid # 0 /\ last # 0 /\ h[p].last_bill = last
            /\ Len(db'[Grp(p)].bills) = Len(d.bills) - 1
            /\ db'[Grp(p)].bills = Without(d.bills, last)
            /\ Books(db'[Grp(p)]) = Books([d EXCEPT !.bills = Without(d.bills, last)])
            /\ (\E i \in gone : IsCarry(d.bills[i].description))
                  => ~HasCarry(db'[Grp(p)], cid)

\* A carry on a cycle that holds no carry-over entry is not rejected, and the
\* entry it inserts is committed.
CarryAfterUndoStep(p) ==
    /\ (h[p].pc = "k_check" /\ h'[p] # h[p] /\ CarryRows(db[Grp(p)], h[p].cycle_id) = {})
          => h'[p].pc = "k_insert"
    /\ (h[p].pc \in {"k_insert", "k_commit"} /\ h'[p] # h[p])
          => h'[p].pc = "k_commit" \/ h'[p].msg = "carried"
    /\ (h[p].pc = "k_commit" /\ h'[p] # h[p])
          => Cardinality(CarryRows(db'[Grp(p)], h[p].cycle_id)) = 1

\* C24: undo deletes exactly one entry, the one with the greatest insertion
\* id in the active cycle, of any kind; when it is the cycle's carry-over
\* entry, the carry-over slot is free again and a later carry succeeds.
C24_UndoFreesCarrySlot ==
    [][\A p \in Procs : UndoStep(p) /\ CarryAfterUndoStep(p)]_vars

\* A carry has been committed again on a cycle whose carry-over entry an undo
\* had taken back: the entry has the third id given, after a deposit and
\* the first carry.
C24_Witness ==
    \E p \in Procs :
        /\ h[p].pc = "reply" /\ h[p].msg = "carried"
        /\ db[1].seq_bills = 3 /\ Len(db[1].bills) = 2
        /\ ~IsCarry(db[1].bills[1].description) /\ db[1].bills[1].bill_id = 1
        /\ IsCarry(db[1].bills[2].description) /\ db[1].bills[2].bill_id = 3
        /\ ghost[1].deposits = 1 /\ ghost[1].adds = 1

====
